---- MODULE Spec2Model ----
(***************************************************************************)
(* Model of src/main.py: parse_formula (the stack-based formula parser)    *)
(* and the Calculate branch of main (the mass-scaling calculation).        *)
(*                                                                         *)
(* A formula is a sequence of one-character strings.  Python floats are    *)
(* modelled as exact rationals <<n, d>> in lowest terms (d > 0).  Python   *)
(* list indices are 0-based; the model's i is 1-based (i = python i + 1).  *)
(***************************************************************************)
EXTENDS Integers, Sequences, FiniteSets, TLC

\* ---------------------------------------------------------------- bounds
MaxLen == 5
MaxMass == 2

\* ---------------------------------------------------------------- alphabet
Upper == {"H", "O"}
Lower == {"e"}
Digits == {"0", "2"}
Chars == Upper \cup Lower \cup Digits \cup {".", "(", ")"}

Formulas == UNION {[1..n -> Chars] : n \in 0..MaxLen}

\* ---------------------------------------------------------------- rationals
RECURSIVE Gcd(_, _)
Gcd(a, b) == IF b = 0 THEN a ELSE Gcd(b, a % b)

Rat(n, d) == LET g == Gcd(n, d) IN <<n \div g, d \div g>>

Zero == <<0, 1>>
One == <<1, 1>>

RAdd(x, y) == Rat(x[1] * y[2] + y[1] * x[2], x[2] * y[2])
RMul(x, y) == Rat(x[1] * y[1], x[2] * y[2])
\* python float division: the caller tests y for zero first
RDiv(x, y) == Rat(x[1] * y[2], x[2] * y[1])

\* ---------------------------------------------------------------- tokenizer
\* length of the maximal run of digits of s starting at position p
RECURSIVE DigitRun(_, _)
DigitRun(s, p) ==
    IF p <= Len(s) /\ s[p] \in Digits THEN 1 + DigitRun(s, p + 1) ELSE 0

\* length of the leftmost match of  [A-Z][a-z]?|\d*\.?\d+|\(|\)  at p, 0 if none
TokenLen(s, p) ==
    LET c == s[p]
        d1 == DigitRun(s, p)
        d2 == IF p + d1 <= Len(s) /\ s[p + d1] = "."
              THEN DigitRun(s, p + d1 + 1) ELSE 0
    IN  IF c \in Upper
        THEN (IF p + 1 <= Len(s) /\ s[p + 1] \in Lower THEN 2 ELSE 1)
        ELSE IF d2 >= 1 THEN d1 + 1 + d2
        ELSE IF d1 >= 1 THEN d1
        ELSE IF c \in {"(", ")"} THEN 1
        ELSE 0

\* re.findall(pattern, formula): unmatched characters are skipped
RECURSIVE FindAll(_, _)
FindAll(s, p) ==
    IF p > Len(s) THEN <<>>
    ELSE LET n == TokenLen(s, p)
         IN  IF n = 0 THEN FindAll(s, p + 1)
             ELSE <<SubSeq(s, p, p + n - 1)>> \o FindAll(s, p + n)

\* re.match(r"\d*\.?\d+", token): a match anchored at the token's start
IsNumber(tok) ==
    \/ tok[1] \in Digits
    \/ tok[1] = "." /\ Len(tok) >= 2 /\ tok[2] \in Digits

\* re.match(r"[A-Z][a-z]?", token)
IsElement(tok) == tok[1] \in Upper

DigitVal(c) == IF c = "2" THEN 2 ELSE 0

RECURSIVE Pow10(_)
Pow10(k) == IF k = 0 THEN 1 ELSE 10 * Pow10(k - 1)

\* value of a digit string read as a decimal integer
RECURSIVE IntVal(_)
IntVal(ds) ==
    IF ds = <<>> THEN 0
    ELSE 10 * IntVal(SubSeq(ds, 1, Len(ds) - 1)) + DigitVal(ds[Len(ds)])

\* float(token) for a numeric literal token
Float(tok) ==
    LET d1 == DigitRun(tok, 1)
    IN  IF d1 = Len(tok) THEN Rat(IntVal(tok), 1)
        ELSE LET fr == SubSeq(tok, d1 + 2, Len(tok))
             IN  RAdd(Rat(IntVal(SubSeq(tok, 1, d1)), 1),
                      Rat(IntVal(fr), Pow10(Len(fr))))

\* ---------------------------------------------------------------- groups
\* A group (python dict, insertion-ordered) is a sequence of <<symbol, value>>.
Keys(g) == {g[k][1] : k \in 1..Len(g)}

\* dict.get(elem, 0)
Get(g, elem) ==
    IF elem \in Keys(g)
    THEN g[CHOOSE k \in 1..Len(g) : g[k][1] = elem][2]
    ELSE Zero

\* d[elem] = d.get(elem, 0) + x, written the way a slip would write it:
\* the new value replaces the old one
AddToOverwrite(g, elem, x) ==
    IF elem \in Keys(g)
    THEN [k \in 1..Len(g) |-> IF g[k][1] = elem THEN <<elem, x>> ELSE g[k]]
    ELSE Append(g, <<elem, x>>)

\* d[elem] = d.get(elem, 0) + x : an existing key keeps its position
AddTo(g, elem, x) ==
    IF elem \in Keys(g)
    THEN [k \in 1..Len(g) |->
            IF g[k][1] = elem THEN <<elem, RAdd(g[k][2], x)>> ELSE g[k]]
    ELSE Append(g, <<elem, RAdd(Zero, x)>>)

\* for elem, cnt in group.items(): parent[elem] = parent.get(elem, 0) + cnt * multiplier
RECURSIVE MergeInto(_, _, _, _)
MergeInto(parent, group, multiplier, k) ==
    IF k > Len(group) THEN parent
    ELSE MergeInto(AddTo(parent, group[k][1], RMul(group[k][2], multiplier)),
                   group, multiplier, k + 1)

\* ---------------------------------------------------------------- state
VARIABLES
    formula,      \* the text typed into the form field
    matches,      \* the token list of parse_formula
    i,            \* the loop index of parse_formula (1-based)
    stack,        \* the stack of groups, top last
    pc,           \* "loop", "returned" or "raised" (IndexError)
    unmatched,    \* history: a close-bracket was processed with no open group
    composition,  \* st.session_state["composition"], <<>> until a parse returns
    selected,     \* the selectbox choice, <<>> for None
    mass,         \* the number_input value
    calc,         \* outcome of the Calculate button, "none" before it is pressed
    results       \* the rows of the result table

vars == <<formula, matches, i, stack, pc, unmatched, composition,
          selected, mass, calc, results>>

parseVars == <<formula, matches, i, stack, pc, unmatched>>
calcVars == <<composition, selected, mass, calc, results>>

Init ==
    /\ formula \in Formulas
    /\ matches = FindAll(formula, 1)
    /\ i = 1
    /\ stack = << <<>> >>
    /\ pc = "loop"
    /\ unmatched = FALSE
    /\ composition = <<>>
    /\ selected = <<>>
    /\ mass = 1
    /\ calc = "none"
    /\ results = <<>>

Looping == pc = "loop" /\ i <= Len(matches)

\* the token after position k is a numeric literal
NumberAt(k) == k <= Len(matches) /\ IsNumber(matches[k])

\* ---------------------------------------------------------------- parse_formula
\* token == "(" : push a new group
Open ==
    /\ Looping
    /\ matches[i] = <<"(">>
    /\ stack' = Append(stack, <<>>)
    /\ i' = i + 1
    /\ UNCHANGED <<formula, matches, pc, unmatched>>
    /\ UNCHANGED calcVars

\* token == ")" : i += 1, read the multiplier, pop, merge, then the loop's i += 1
Close ==
    /\ Looping
    /\ matches[i] = <<")">>
    /\ LET multiplier == IF NumberAt(i + 1) THEN Float(matches[i + 1]) ELSE One
           group == stack[Len(stack)]
           rest == SubSeq(stack, 1, Len(stack) - 1)
       IN  /\ unmatched' = (unmatched \/ Len(stack) <= 1)
           /\ IF Len(stack) = 0
              THEN \* stack.pop() on an empty list
                   /\ pc' = "raised"
                   /\ i' = i + 1
                   /\ UNCHANGED stack
              ELSE IF rest = <<>> /\ group # <<>>
              THEN \* stack[-1] on the list the pop emptied
                   /\ pc' = "raised"
                   /\ i' = i + 1
                   /\ stack' = rest
              ELSE /\ pc' = pc
                   /\ i' = i + 2
                   /\ stack' = IF rest = <<>> THEN rest
                               ELSE [rest EXCEPT ![Len(rest)] =
                                       MergeInto(rest[Len(rest)], group, multiplier, 1)]
    /\ UNCHANGED <<formula, matches>>
    /\ UNCHANGED calcVars

\* an element symbol: look ahead for its count, add it to the top group
Element ==
    /\ Looping
    /\ IsElement(matches[i])
    /\ LET hasCount == NumberAt(i + 1)
           count == IF hasCount THEN Float(matches[i + 1]) ELSE One
           ni == IF hasCount THEN i + 1 ELSE i
       IN  IF Len(stack) = 0
           THEN \* stack[-1] on an empty list
                /\ pc' = "raised"
                /\ i' = ni
                /\ UNCHANGED stack
           ELSE /\ pc' = pc
                /\ i' = ni + 1
                /\ stack' = [stack EXCEPT ![Len(stack)] =
                               AddTo(stack[Len(stack)], matches[i], count)]
    /\ UNCHANGED <<formula, matches, unmatched>>
    /\ UNCHANGED calcVars

\* a numeric literal reached as a token of its own: no branch matches
Number ==
    /\ Looping
    /\ IsNumber(matches[i])
    /\ i' = i + 1
    /\ UNCHANGED <<formula, matches, stack, pc, unmatched>>
    /\ UNCHANGED calcVars

\* return stack[0]; the Enter handler stores it in the session state
Return ==
    /\ pc = "loop"
    /\ i > Len(matches)
    /\ IF Len(stack) = 0
       THEN /\ pc' = "raised"
            /\ UNCHANGED composition
       ELSE /\ pc' = "returned"
            /\ composition' = stack[1]
    /\ UNCHANGED <<formula, matches, i, stack, unmatched>>
    /\ UNCHANGED <<selected, mass, calc, results>>

\* ---------------------------------------------------------------- calculation
\* the value get_atomic_weight returns for a symbol the table does not know
None == <<0, 0>>

\* get_atomic_weight(element): the table is an external library; the model
\* uses whole-number masses for the symbols the alphabet can spell
get_atomic_weight(element) ==
    IF element = <<"H">> THEN <<1, 1>>
    ELSE IF element = <<"H", "e">> THEN <<4, 1>>
    ELSE IF element = <<"O">> THEN <<16, 1>>
    ELSE None

\* python truth value of an atomic weight
Truthy(w) == w # None /\ w # Zero

\* number of decimals of the "{:.5f}" format
Decimals == 5

\* k decimal digits of rem/d by long division: <<digits as a number, remainder>>
RECURSIVE FracDigits(_, _, _)
FracDigits(rem, d, k) ==
    IF k = 0 THEN <<0, rem>>
    ELSE LET prev == FracDigits(rem, d, k - 1)
         IN  <<prev[1] * 10 + ((prev[2] * 10) \div d), (prev[2] * 10) % d>>

\* x lies exactly halfway between two 5-decimal values
IsTie(x) == 2 * FracDigits(x[1] % x[2], x[2], Decimals)[2] = x[2]

\* f"{x:.5f}": x rounded to 5 decimals, as <<integer part, the 5 decimals as
\* a number>>.  The model computes x exactly; the float the code formats
\* carries a representation error, so at an exact tie the last digit the
\* code prints may be either neighbour: tieUp picks it.
Format(x, tieUp) ==
    LET ip == x[1] \div x[2]
        fd == FracDigits(x[1] % x[2], x[2], Decimals)
        up == \/ 2 * fd[2] > x[2]
              \/ 2 * fd[2] = x[2] /\ tieUp
        f  == IF up THEN fd[1] + 1 ELSE fd[1]
    IN  IF f = Pow10(Decimals) THEN <<ip + 1, 0>> ELSE <<ip, f>>

\* the check of the mass, written with the boundary value let through
MassRejectedStrict(m) == m < 0

\* if mass <= 0: st.error(...)
MassRejected(m) == m <= 0

\* required = atomic_weight * coeff * factor
Required(atomic_weight, coeff, factor) == RMul(RMul(atomic_weight, coeff), factor)

\* the rows of the results dict, one per key of the composition, in order
Rows(comp, factor, tieUps) ==
    [k \in 1..Len(comp) |->
        LET atomic_weight == get_atomic_weight(comp[k][1])
        IN  IF Truthy(atomic_weight)
            THEN <<comp[k][1], "mass",
                   Format(Required(atomic_weight, comp[k][2], factor), tieUps[k])>>
            ELSE <<comp[k][1], "unavailable", <<0, 0>>>>]

\* the rounding directions the rows can take: a choice only at a tie
TieChoices(comp, factor) ==
    {t \in [1..Len(comp) -> BOOLEAN] :
        \A k \in 1..Len(comp) :
            t[k] => /\ Truthy(get_atomic_weight(comp[k][1]))
                    /\ IsTie(Required(get_atomic_weight(comp[k][1]), comp[k][2], factor))}

\* the choices of the selectbox: the keys of the composition, None if empty
SelectOptions(comp) == IF comp = <<>> THEN {<<>>} ELSE Keys(comp)

\* the Calculate button
Calculate ==
    /\ pc = "returned"
    /\ calc = "none"
    /\ \E s \in SelectOptions(composition), m \in 0..MaxMass :
        /\ selected' = s
        /\ mass' = m
        /\ IF MassRejected(m)
           THEN calc' = "mass_error" /\ results' = <<>>
           ELSE LET base_weight == get_atomic_weight(s)
                IN  IF base_weight = None
                    THEN calc' = "weight_error" /\ results' = <<>>
                    ELSE LET base_mass == RMul(base_weight, Get(composition, s))
                         IN  IF base_mass = Zero
                             THEN \* mass / base_mass
                                  calc' = "ZeroDivisionError" /\ results' = <<>>
                             ELSE LET factor == RDiv(<<m, 1>>, base_mass)
                                  IN  /\ calc' = "ok"
                                      /\ \E t \in TieChoices(composition, factor) :
                                            results' = Rows(composition, factor, t)
    /\ UNCHANGED composition
    /\ UNCHANGED parseVars

Next == Open \/ Close \/ Element \/ Number \/ Return \/ Calculate

Spec == Init /\ [][Next]_vars

\* ---------------------------------------------------------------- properties
\* the multiplier a close-bracket at position k takes
MultiplierAt(k) == IF NumberAt(k + 1) THEN Float(matches[k + 1]) ELSE One

\* C1: when a close-bracket is processed while a bracket is open, the top
\* group is popped and the enclosing group's entry of every symbol becomes
\* what it held plus the popped group's entry times the multiplier; the
\* groups below are left alone.
C1_CloseMergesBySumming ==
    [][(Looping /\ matches[i] = <<")">> /\ Len(stack) >= 2) =>
        LET top == stack[Len(stack)]
            parent == stack[Len(stack) - 1]
            m == MultiplierAt(i)
        IN  /\ pc' = "loop"
            /\ Len(stack') = Len(stack) - 1
            /\ \A k \in 1..(Len(stack) - 2) : stack'[k] = stack[k]
            /\ Keys(stack'[Len(stack')]) = Keys(parent) \cup Keys(top)
            /\ \A e \in Keys(parent) \cup Keys(top) :
                 Get(stack'[Len(stack')], e) =
                     RAdd(Get(parent, e), RMul(Get(top, e), m))]_vars

\* a close-bracket with multiplier 2 has just been merged into a root group
\* that already held the symbol: 1 + 1 * 2 = 3
C1_Witness ==
    /\ pc = "loop"
    /\ ~unmatched
    /\ Len(matches) = 5
    /\ i = 6
    /\ matches[3] \in {<<"H">>, <<"O">>}
    /\ matches[1] = matches[3]
    /\ matches[2] = <<"(">>
    /\ matches[4] = <<")">>
    /\ matches[5] = <<"2">>
    /\ stack = << <<<<matches[1], <<3, 1>>>>>> >>

NoBrackets == \A k \in 1..Len(formula) : formula[k] \notin {"(", ")"}

Symbols == {matches[k] : k \in {j \in 1..Len(matches) : IsElement(matches[j])}}

\* sum, over the occurrences of sym at positions k.., of the numeric literal
\* that immediately follows the occurrence, 1 when none does
RECURSIVE SumOcc(_, _)
SumOcc(sym, k) ==
    IF k > Len(matches) THEN Zero
    ELSE IF matches[k] = sym
         THEN RAdd(IF NumberAt(k + 1) THEN Float(matches[k + 1]) ELSE One,
                   SumOcc(sym, k + 1))
         ELSE SumOcc(sym, k + 1)

\* C2: a formula without brackets never fails, and what parse_formula
\* returns for it maps exactly the symbols that occur, each to the sum over
\* its occurrences of the literal that immediately follows (1 if none);
\* literals elsewhere contribute nothing.
C2_FlatFormulaSums ==
    NoBrackets =>
        /\ pc # "raised"
        /\ pc = "returned" =>
             /\ Keys(composition) = Symbols
             /\ Len(composition) = Cardinality(Symbols)
             /\ \A e \in Symbols : Get(composition, e) = SumOcc(e, 1)

\* a bracket-free formula with a stray leading literal and a symbol that
\* occurs twice has been parsed: "2H2H" gives H 3
C2_Witness ==
    /\ pc = "returned"
    /\ NoBrackets
    /\ Len(matches) = 4
    /\ IsNumber(matches[1])
    /\ matches[2] = matches[4]
    /\ matches[3] = <<"2">>
    /\ composition = <<<<matches[2], <<3, 1>>>>>>

\* C3: a parse in which a close-bracket was read with no open bracket to
\* match it never returns a composition.
C3_UnmatchedCloseFails == unmatched => pc # "returned"

\* C4: a parse returns only when the stack holds exactly the root group.
C4_UnclosedOpenFails == pc = "returned" => Len(stack) = 1

\* C5: a formula with no recognizable token is not parsed to a composition.
C5_NoTokensFails == matches = <<>> => pc # "returned"

\* k times a formatted value
Times(k, v) ==
    <<k * v[1] + ((k * v[2]) \div Pow10(Decimals)), (k * v[2]) % Pow10(Decimals)>>

\* C6: every value the calculation emits for reference mass k is k times the
\* value it emits for reference mass 1.
C6_ScaleInvariant ==
    calc = "ok" =>
        LET base_mass == RMul(get_atomic_weight(selected), Get(composition, selected))
            factorOne == RDiv(One, base_mass)
        IN  \E t \in TieChoices(composition, factorOne) :
              LET atOne == Rows(composition, factorOne, t)
              IN  \A k \in 1..Len(results) :
                    results[k][2] = "mass" =>
                        results[k][3] = Times(mass, atOne[k][3])

\* C7: with the reference element's weight available and a positive mass the
\* calculation yields one row per element in composition order: the
\* "unavailable" marker exactly where the lookup misses, the scaled mass
\* elsewhere.
C7_MissingWeightDegrades ==
    (calc # "none" /\ mass > 0 /\ get_atomic_weight(selected) # None) =>
        /\ calc = "ok"
        /\ Len(results) = Len(composition)
        /\ LET factor == RDiv(<<mass, 1>>,
                              RMul(get_atomic_weight(selected),
                                   Get(composition, selected)))
           IN  \A k \in 1..Len(results) :
                 LET w == get_atomic_weight(composition[k][1])
                 IN  /\ results[k][1] = composition[k][1]
                     /\ (results[k][2] = "unavailable") <=> (w = None)
                     /\ w # None =>
                          results[k][3] \in
                              {Format(Required(w, composition[k][2], factor), b) :
                                  b \in BOOLEAN}

\* C8: a calculation requested with a mass that is not positive ends in the
\* mass error with no result row, whatever the reference element's weight.
C8_NonPositiveMassRejected ==
    (calc # "none" /\ mass <= 0) => (calc = "mass_error" /\ results = <<>>)

\* mass 0 was rejected for a reference element whose weight is unknown
C8_Witness ==
    /\ calc = "mass_error"
    /\ mass = 0
    /\ selected # <<>>
    /\ get_atomic_weight(selected) = None
    /\ results = <<>>

\* C9: a close-bracket followed by a token that is not a numeric literal
\* leaves that token to be processed next.
C9_CloseKeepsNextToken ==
    [][(Looping /\ matches[i] = <<")">> /\ i + 1 <= Len(matches)
          /\ ~NumberAt(i + 1) /\ pc' = "loop") => i' = i + 1]_vars

\* C10: for every composition a parse returns, no reference element with a
\* known weight gives a zero divisor, and a calculation with such an element
\* and a positive mass completes with one row per element.
C10_DivisorNeverZero ==
    /\ pc = "returned" =>
         \A e \in Keys(composition) :
             get_atomic_weight(e) # None =>
                 RMul(get_atomic_weight(e), Get(composition, e)) # Zero
    /\ (calc # "none" /\ mass > 0 /\ get_atomic_weight(selected) # None) =>
         /\ calc # "ZeroDivisionError"
         /\ Len(results) = Len(composition)
====
